---- MODULE Spec2Model ----
\* LogUtil: a logging backend that writes every line to the console, to a
\* "latest" file (<class>.log, truncated on each date rollover) and to a dated
\* file (<class>_<YYYYMMDD>.log).  The model follows src/src/log_util.rs: the
\* LogUtil struct, LogUtil::new, the two write paths (output_progress_msg and
\* Log::log) with their rollover section, and the file system they act on.
EXTENDS Integers, Sequences, FiniteSets, TLC

\* ---------------------------------------------------------------- bounds

\* Threads sharing one writer.
NumThreads == 2
\* Write calls in one behaviour of Spec (all threads together).
MaxCalls == 2
\* Write calls in one behaviour of SeqSpec (one thread).
MaxSeqCalls == 3
\* The wall clock runs over the dates 1..MaxDate.
MaxDate == 2
\* Byte length of the long message (the short one has one byte).
LongMsgLen == 32
\* Bytes a dated file left by an earlier run of the same day holds.
OldLen == 2
\* Write calls in one behaviour of LevelSpec.
MaxLevelCalls == 2
\* Write calls in one behaviour of FailSpec.
MaxFailCalls == 2
\* Write calls in one behaviour of FairSpec (all threads together).
MaxFairCalls == 2
\* Calls of get_or_create_log_dir in one behaviour of DirSpec.
MaxDirCalls == 3
\* Calls of init and init_with_logger in one behaviour of InitSpec.
MaxInitCalls == 2

Threads == 1..NumThreads
\* The thread of the single-threaded program.
MainThread == CHOOSE t \in Threads : \A u \in Threads : t <= u
Dates == 1..MaxDate
\* The arguments the write calls are made with: message lengths, the levels
\* of progress writes and the levels of records.
MsgLens == {1, LongMsgLen}
ProgressLevels == {"Warn"}
RecordLevels == {"Warn"}

\* ------------------------------------------------------- levels, formats

\* log_level.rs: enum LogLevel { Debug = 4, Warn = 3, Info = 2, Error = 1 }.
LogLevels == {"Debug", "Warn", "Info", "Error"}
LogLevelAsU32(l) ==
    CASE l = "Debug" -> 4 [] l = "Warn" -> 3 [] l = "Info" -> 2 [] l = "Error" -> 1

\* log_level.rs: impl fmt::Display for LogLevel.
LogLevelDisplay(l) ==
    CASE l = "Info" -> "INFO" [] l = "Debug" -> "DEBUG"
      [] l = "Error" -> "ERROR" [] l = "Warn" -> "WARNING"

\* The facade's record.level(), as log_util.rs prints it with "{}".
Levels == {"Error", "Warn", "Info", "Debug", "Trace"}
LevelDisplay(l) ==
    CASE l = "Error" -> "ERROR" [] l = "Warn" -> "WARN" [] l = "Info" -> "INFO"
      [] l = "Debug" -> "DEBUG" [] l = "Trace" -> "TRACE"

\* LevelFilter as u32: Off, Error, Warn, Info, Debug, Trace.
LevelFilterAsU32(f) ==
    CASE f = "Off" -> 0 [] f = "Error" -> 1 [] f = "Warn" -> 2
      [] f = "Info" -> 3 [] f = "Debug" -> 4 [] f = "Trace" -> 5

\* Values of RUST_LOG the program is started with ("" stands for unset).
EnvValues == {"", "warn"}
\* Values of RUST_LOG: unset, the six names the code matches, names in
\* another case, and a name it does not know.
AllEnvValues == {"", "info", "debug", "error", "warn", "off", "trace",
                 "INFO", "Warn", "verbose"}
\* A slip: a value that is not recognised turns logging off.
fetch_max_level_unknown_is_off(v) ==
    CASE v = "info" -> "Info" [] v = "debug" -> "Debug" [] v = "error" -> "Error"
      [] v = "warn" -> "Warn" [] v = "off" -> "Off" [] v = "trace" -> "Trace"
      [] OTHER -> "Off"

\* fetch_max_level_from_env, RUST_LOG holding v.
fetch_max_level_from_env(v) ==
    CASE v = "info" -> "Info" [] v = "debug" -> "Debug" [] v = "error" -> "Error"
      [] v = "warn" -> "Warn" [] v = "off" -> "Off" [] v = "trace" -> "Trace"
      [] OTHER -> "Info"

\* Width of a timestamp rendered with "%Y-%m-%d %H:%M:%S".
TimestampLen == 19

\* calculate_log_prefix_len: the length of a sample prefix.
calculate_log_prefix_len(log_level) ==
    Len("[2024-05-08 12:24:05 " \o LogLevelDisplay(log_level) \o "] ")

\* ------------------------------------------------------------ file bytes

\* A file is a sequence of bytes.  A byte remembers the write call it came
\* from: Txt(id) a byte of the rendered "[time LEVEL] msg", Nl(id) the newline
\* that ends a record line, Hole a zero byte of a gap left by a write past the
\* end of the file, Old a byte written by an earlier run of the program.
Hole == 0
Old == 1
Txt(id) == 2 * id
Nl(id) == 2 * id + 1

\* write!(f, "[{} {}] {}", now_time, level, msg): the bytes of one line whose
\* level renders as disp and whose message has msg bytes.
RenderLine(id, disp, msg) ==
    [i \in 1..(1 + TimestampLen + 1 + Len(disp) + 2 + msg) |-> Txt(id)]

\* writeln!: the same line and a newline.
RenderLineLn(id, disp, msg) == Append(RenderLine(id, disp, msg), Nl(id))

Max(a, b) == IF a >= b THEN a ELSE b

\* The content of a file after bytes are written at offset off (a write
\* past the end leaves a gap of zero bytes).
WriteAt(content, off, bytes) ==
    [i \in 1..Max(Len(content), off + Len(bytes)) |->
        IF i > off /\ i <= off + Len(bytes) THEN bytes[i - off]
        ELSE IF i <= Len(content) THEN content[i]
        ELSE Hole]

\* ---------------------------------------------------------------- state

\* Option::None of a file handle, and of a cursor.
None == [none |-> TRUE]
NoPos == -1
NoDate == 0
Free == 0

VARIABLES
    clock,          \* chrono::Local::now().date_naive(), the wall-clock date
    dirs,           \* the directories that exist
    fs,             \* the files that exist: path -> content
    max_log_level,  \* MAX_LOG_LEVEL
    class_name,     \* LogUtil.class_name
    out_log_file,                     \* LogUtil.out_log_file: a handle or None
    out_log_file_line_position,       \* the latest file's cursor or NoPos
    out_log_date_file,                \* LogUtil.out_log_date_file
    out_log_date_file_line_position,  \* the dated file's cursor or NoPos
    out_log_date,   \* LogUtil.out_log_date, the date the files were opened for
    init_date,      \* LogUtil.init_date
    lock,           \* holder of each Mutex (Free or a thread)
    pc,             \* each thread's place in its write call
    cid,            \* each thread's current (or last) call
    calls,          \* the write calls made so far: arguments, locals, observations
    rollovers,      \* how many rollovers have swapped the handles
    facade          \* the log facade: the registered logger and log::max_level()

vars == <<clock, dirs, fs, max_log_level, class_name, out_log_file,
          out_log_file_line_position, out_log_date_file,
          out_log_date_file_line_position, out_log_date, init_date, lock, pc,
          cid, calls, rollovers, facade>>

writer == <<out_log_file, out_log_file_line_position, out_log_date_file,
            out_log_date_file_line_position, out_log_date>>

LockNames == {"out_log_date", "out_log_file", "out_log_file_line_position",
              "out_log_date_file", "out_log_date_file_line_position"}

\* The logger the facade holds until one is registered.
NopLogger == "NopLogger"

\* ----------------------------------------------------------- file system

LogDir == "log"
\* log_dir.join(class_name): joining the empty name gives log/ itself.
ClassDir(cn) == IF cn = "" THEN LogDir ELSE LogDir \o "/" \o cn
\* format!("{}.log", class_name) and format!("{}_{}.log", class_name, date):
\* a path is the class and the date in the file name (NoDate: the latest file).
LatestPath(cn) == <<cn, NoDate>>
DatedPath(cn, d) == <<cn, d>>

\* get_or_create_log_dir: the directories that exist after the call.
get_or_create_log_dir(ds, cn) == ds \cup {LogDir, ClassDir(cn)}

Exists(files, p) == p \in DOMAIN files
Content(files, p) == IF Exists(files, p) THEN files[p] ELSE <<>>
PutFile(files, p, c) == [q \in DOMAIN files \cup {p} |-> IF q = p THEN c ELSE files[q]]

\* A handle: the file it is open on, its offset, whether it was opened with
\* append(true), the date it was opened for and the rollover that opened it.
Handle(p, pos, app, d, g) ==
    [path |-> p, pos |-> pos, append |-> app, date |-> d, gen |-> g]

\* A slip: the latest file is opened without truncate(true).
OpenKeepsContentFs(files, p) == PutFile(files, p, Content(files, p))

\* OpenOptions write+create+truncate: the file exists and is empty.
OpenTruncateFs(files, p) == PutFile(files, p, <<>>)
\* OpenOptions create without truncate: the file exists, content kept.
OpenCreateFs(files, p) == PutFile(files, p, Content(files, p))

\* seek(SeekFrom::Start(off)): an offset of 2^63 or more (see WrapU64) is
\* refused and leaves the handle where it is; the code ignores the error.
Seek(h, off) == IF off < 0 THEN h ELSE [h EXCEPT !.pos = off]
\* seek(SeekFrom::End(0)).
SeekEnd(files, h) == [h EXCEPT !.pos = Len(Content(files, h.path))]
\* Where a write through h lands: at the end for an append handle, else at
\* the handle's offset.
WriteOffset(files, h) == IF h.append THEN Len(Content(files, h.path)) ELSE h.pos
WriteFs(files, h, bytes) ==
    PutFile(files, h.path, WriteAt(Content(files, h.path), WriteOffset(files, h), bytes))
\* The handle after the write; its pos is what stream_position() returns.
WriteHandle(files, h, bytes) == [h EXCEPT !.pos = WriteOffset(files, h) + Len(bytes)]

\* ------------------------------------------------------------- LogUtil

\* The names a writer is constructed with, and the name set_class_name gives.
ClassNames == {"", "Svc"}
NewClassName == "Alt"

\* The lazy_static LOGGER: no files, no cursors, the default date.
LOGGER ==
    [class_name |-> "", out_log_file |-> None, out_log_file_line_position |-> NoPos,
     out_log_date_file |-> None, out_log_date_file_line_position |-> NoPos,
     init_date |-> NoDate, out_log_date |-> NoDate]

\* LogUtil::new(cn) at date now_date: the writer.  The latest file is opened
\* at offset 0, the dated file is opened and positioned at its end; both
\* cursors start at 0.
new(files, cn, now_date) ==
    [class_name |-> cn,
     out_log_file |->
        IF cn = "" THEN None
        ELSE Handle(LatestPath(cn), 0, FALSE, now_date, 0),
     out_log_file_line_position |-> 0,
     out_log_date_file |->
        IF cn = "" THEN None
        ELSE SeekEnd(OpenCreateFs(files, DatedPath(cn, now_date)),
                     Handle(DatedPath(cn, now_date), 0, FALSE, now_date, 0)),
     out_log_date_file_line_position |-> 0,
     init_date |-> now_date,
     out_log_date |-> now_date]

\* LogUtil::new(cn): the directories and the files it leaves on disk.
newDirs(ds, cn) == IF cn = "" THEN ds ELSE get_or_create_log_dir(ds, cn)
newFs(files, cn, now_date) ==
    IF cn = "" THEN files
    ELSE OpenCreateFs(OpenTruncateFs(files, LatestPath(cn)), DatedPath(cn, now_date))

\* The disk before the program starts: empty, or left by an earlier run of
\* the same day under the class name Svc.
NoFiles == [q \in {} |-> <<>>]
EarlierRunFs ==
    PutFile(PutFile(NoFiles, LatestPath("Svc"), [i \in 1..OldLen |-> Old]),
            DatedPath("Svc", 1), [i \in 1..OldLen |-> Old])
Disks == {[dirs |-> {}, fs |-> NoFiles],
          [dirs |-> {LogDir, ClassDir("Svc")}, fs |-> EarlierRunFs]}

InitWriter(w) ==
    /\ class_name = w.class_name
    /\ out_log_file = w.out_log_file
    /\ out_log_file_line_position = w.out_log_file_line_position
    /\ out_log_date_file = w.out_log_date_file
    /\ out_log_date_file_line_position = w.out_log_date_file_line_position
    /\ init_date = w.init_date
    /\ out_log_date = w.out_log_date

\* The program starts with RUST_LOG one of envs.
Start(envs) ==
    /\ clock = 1
    /\ \E v \in envs : max_log_level = fetch_max_level_from_env(v)
    /\ \E disk \in Disks :
         \/ /\ InitWriter(LOGGER)
            /\ dirs = disk.dirs
            /\ fs = disk.fs
         \/ \E cn \in ClassNames :
              /\ InitWriter(new(disk.fs, cn, clock))
              /\ dirs = newDirs(disk.dirs, cn)
              /\ fs = newFs(disk.fs, cn, clock)
    /\ lock = [l \in LockNames |-> Free]
    /\ pc = [t \in Threads |-> "idle"]
    /\ cid = [t \in Threads |-> 0]
    /\ calls = <<>>
    /\ rollovers = 0
    /\ facade = [logger |-> NopLogger, max_level |-> "Off"]

Init == Start(EnvValues)

\* ------------------------------------------------------------ write calls

\* A call's record: its arguments (kind, level, msg, stop), the date it
\* captured at entry (now), whether it passed the level filter, the handles
\* its rollover opened (out_file, out_date_file), and what it was observed to
\* do: whether it rolled over, and per file the offset its line began at
\* (off), the stream position after the write (end), the cursor it stored
\* (lp), the date and the rollover of the handle it wrote through, and the
\* file's length before the write (NotYet: the file is not written).
NotYet == NoPos
NewCall(kind, level, msg, stop, passed) ==
    [kind |-> kind, level |-> level, msg |-> msg, stop |-> stop, now |-> clock,
     passed |-> passed, out_file |-> None, out_date_file |-> None,
     rolled |-> FALSE,
     file_off |-> NotYet, file_end |-> NotYet, file_lp |-> NotYet,
     file_date |-> NotYet, file_gen |-> NotYet, file_len0 |-> NotYet,
     date_file_off |-> NotYet, date_file_end |-> NotYet, date_file_lp |-> NotYet,
     date_file_date |-> NotYet, date_file_gen |-> NotYet, date_file_len0 |-> NotYet]

Cur(t) == calls[cid[t]]
SetCur(t, c) == [calls EXCEPT ![cid[t]] = c]
Goto(t, l) == [pc EXCEPT ![t] = l]
Acquire(lk, l, t) == [lk EXCEPT ![l] = t]
Release(lk, ls) == [l \in LockNames |-> IF l \in ls THEN Free ELSE lk[l]]

\* Where a call goes after the rollover section: to the first write section
\* whose file and cursor both exist.
HasFile == out_log_file # None /\ out_log_file_line_position # NoPos
HasDateFile == out_log_date_file # None /\ out_log_date_file_line_position # NoPos
AfterRollover == IF HasFile THEN "lock_file"
                 ELSE IF HasDateFile THEN "lock_date_file" ELSE "idle"
AfterFile == IF HasDateFile THEN "lock_date_file" ELSE "idle"
\* A slip: the rollover section is entered without looking at the handles.
AfterConsoleAlwaysChecksDate == "check_date"

\* Where a call that prints goes first: to the rollover section if both file
\* handles exist.
AfterConsole == IF out_log_file # None /\ out_log_date_file # None
                THEN "check_date" ELSE AfterRollover

\* if log_level as u32 <= *MAX_LOG_LEVEL as u32
ProgressEnabled(log_level) == LogLevelAsU32(log_level) <= LevelFilterAsU32(max_log_level)
\* Log::enabled
enabled(level) == TRUE

Enter(t, c) ==
    /\ pc[t] = "idle"
    /\ calls' = Append(calls, c)
    /\ cid' = [cid EXCEPT ![t] = Len(calls) + 1]
    /\ pc' = Goto(t, IF c.passed THEN AfterConsole ELSE "idle")
    /\ UNCHANGED <<clock, dirs, fs, max_log_level, class_name, writer, init_date, facade,
                   lock, rollovers>>

\* LogUtil::output_progress_msg, up to the console output, called with a
\* level of levels and a message of one of the lengths msgs.
output_progress_msg_with(t, levels, msgs) ==
    \E log_level \in levels, msg \in msgs, is_process_stop \in BOOLEAN :
        Enter(t, NewCall("progress", log_level, msg, is_process_stop,
                         ProgressEnabled(log_level)))

output_progress_msg(t) == output_progress_msg_with(t, ProgressLevels, MsgLens)

\* Log::log, up to the console output, called with a record of a level of
\* levels and a message of one of the lengths msgs.
log_with(t, levels, msgs) ==
    \E level \in levels, msg \in msgs :
        Enter(t, NewCall("record", level, msg, FALSE, enabled(level)))

log(t) == log_with(t, RecordLevels, MsgLens)

\* --------------------------------------------------------------- rollover

\* let mut out_log_date_locked = self.out_log_date.lock().unwrap();
\* if now.date_naive() != *out_log_date_locked { ... }
\* A call whose date is the open date leaves the section (the guard is
\* dropped); any other call keeps the lock and rolls over.
CheckDate(t) ==
    /\ pc[t] = "check_date"
    /\ lock["out_log_date"] = Free
    /\ IF Cur(t).now # out_log_date
       THEN /\ lock' = Acquire(lock, "out_log_date", t)
            /\ pc' = Goto(t, "reopen")
       ELSE /\ lock' = lock
            /\ pc' = Goto(t, AfterRollover)
    /\ UNCHANGED <<clock, dirs, fs, max_log_level, class_name, writer, init_date, facade,
                   cid, calls, rollovers>>

\* The new latest handle: write+create+truncate, at offset 0.
ReopenFile(cn, now, g) == Handle(LatestPath(cn), 0, FALSE, now, g)

\* The new dated handle of output_progress_msg: append(true)+create.
ProgressReopenDateFile(files, cn, now, g) == Handle(DatedPath(cn, now), 0, TRUE, now, g)

\* The new dated handle of Log::log: write+read+create, then seek to the end.
LogReopenDateFile(files, cn, now, g) ==
    SeekEnd(files, Handle(DatedPath(cn, now), 0, FALSE, now, g))

\* The rollover opens both files: the directory is (re)created, the latest
\* file is truncated and the dated file of the call's date is created if it
\* is not there.  The handles are locals of the call until they are swapped in.
Reopen(t) ==
    /\ pc[t] = "reopen"
    /\ LET c == Cur(t)
           files == OpenCreateFs(OpenTruncateFs(fs, LatestPath(class_name)),
                                 DatedPath(class_name, c.now))
           g == rollovers + 1
       IN /\ dirs' = get_or_create_log_dir(dirs, class_name)
          /\ fs' = files
          /\ calls' = SetCur(t, [c EXCEPT
                !.out_file = ReopenFile(class_name, c.now, g),
                !.out_date_file =
                    IF c.kind = "progress"
                    THEN ProgressReopenDateFile(files, class_name, c.now, g)
                    ELSE LogReopenDateFile(files, class_name, c.now, g)])
    /\ pc' = Goto(t, "swap_file")
    /\ UNCHANGED <<clock, max_log_level, class_name, writer, init_date, facade, lock, cid,
                   rollovers>>

\* let mut write_file = write_file.lock().unwrap(); *write_file = out_file;
SwapFile(t) ==
    /\ pc[t] = "swap_file"
    /\ lock["out_log_file"] = Free
    /\ lock' = Acquire(lock, "out_log_file", t)
    /\ out_log_file' = Cur(t).out_file
    /\ pc' = Goto(t, "swap_date_file")
    /\ UNCHANGED <<clock, dirs, fs, max_log_level, class_name,
                   out_log_file_line_position, out_log_date_file,
                   out_log_date_file_line_position, out_log_date, init_date, facade, cid,
                   calls, rollovers>>

\* A slip: the rollover swaps the handles and leaves out_log_date as it was.
SwapDateFileKeepsDate(t) ==
    /\ pc[t] = "swap_date_file"
    /\ lock["out_log_date_file"] = Free
    /\ out_log_date_file' = Cur(t).out_date_file
    /\ lock' = Release(lock, {"out_log_date", "out_log_file", "out_log_date_file"})
    /\ rollovers' = rollovers + 1
    /\ calls' = SetCur(t, [Cur(t) EXCEPT !.rolled = TRUE])
    /\ pc' = Goto(t, AfterRollover)
    /\ UNCHANGED <<clock, dirs, fs, max_log_level, class_name, out_log_file,
                   out_log_file_line_position, out_log_date_file_line_position,
                   out_log_date, init_date, facade, cid>>

\* A slip: the guard of out_log_date is kept (leaked) after the rollover.
SwapDateFileKeepsDateLock(t) ==
    /\ pc[t] = "swap_date_file"
    /\ lock["out_log_date_file"] = Free
    /\ out_log_date_file' = Cur(t).out_date_file
    /\ out_log_date' = Cur(t).now
    /\ lock' = Release(lock, {"out_log_file", "out_log_date_file"})
    /\ rollovers' = rollovers + 1
    /\ calls' = SetCur(t, [Cur(t) EXCEPT !.rolled = TRUE])
    /\ pc' = Goto(t, AfterRollover)
    /\ UNCHANGED <<clock, dirs, fs, max_log_level, class_name, out_log_file,
                   out_log_file_line_position, out_log_date_file_line_position,
                   init_date, facade, cid>>

\* let mut write_date_file = write_date_file.lock().unwrap();
\* *write_date_file = out_date_file; *out_log_date_locked = now.date_naive();
\* and the three guards are dropped.  The cursors are not touched.
SwapDateFile(t) ==
    /\ pc[t] = "swap_date_file"
    /\ lock["out_log_date_file"] = Free
    /\ out_log_date_file' = Cur(t).out_date_file
    /\ out_log_date' = Cur(t).now
    /\ lock' = Release(lock, {"out_log_date", "out_log_file", "out_log_date_file"})
    /\ rollovers' = rollovers + 1
    /\ calls' = SetCur(t, [Cur(t) EXCEPT !.rolled = TRUE])
    /\ pc' = Goto(t, AfterRollover)
    /\ UNCHANGED <<clock, dirs, fs, max_log_level, class_name, out_log_file,
                   out_log_file_line_position, out_log_date_file_line_position,
                   init_date, facade, cid>>

\* ----------------------------------------------------------------- writes

\* A slip: the cursor is rewound whether or not the progress ends.
ProgressWriteAlwaysRewinds(files, h, lp, id, log_level, msg, is_process_stop, prefix_len) ==
    LET at == Seek(h, lp)
        line == RenderLine(id, LogLevelDisplay(log_level), msg)
        p == WriteHandle(files, at, line).pos
    IN [fs |-> WriteFs(files, at, line),
        h |-> WriteHandle(files, at, line),
        off |-> WriteOffset(files, at),
        lp |-> p - (msg + prefix_len)]

\* The progress write to one file: seek to the cursor lp, write the line
\* without a newline, and set the cursor to the stream position p if the
\* progress ends, else to p less the message and the prefix length.
ProgressWrite(files, h, lp, id, log_level, msg, is_process_stop, prefix_len) ==
    LET at == Seek(h, lp)
        line == RenderLine(id, LogLevelDisplay(log_level), msg)
        p == WriteHandle(files, at, line).pos
    IN [fs |-> WriteFs(files, at, line),
        h |-> WriteHandle(files, at, line),
        off |-> WriteOffset(files, at),
        lp |-> IF is_process_stop THEN p ELSE p - (msg + prefix_len)]

\* A slip: the record is written with a positioned write, which leaves the
\* handle's offset where it was.
LogWriteKeepsOffset(files, h, id, level, msg) ==
    LET line == RenderLineLn(id, LevelDisplay(level), msg)
    IN [fs |-> WriteFs(files, h, line),
        h |-> h,
        off |-> WriteOffset(files, h),
        lp |-> h.pos]

\* The record write to one file: writeln! at the handle's offset, then the
\* cursor is set to the stream position.
LogWrite(files, h, id, level, msg) ==
    LET line == RenderLineLn(id, LevelDisplay(level), msg)
    IN [fs |-> WriteFs(files, h, line),
        h |-> WriteHandle(files, h, line),
        off |-> WriteOffset(files, h),
        lp |-> WriteHandle(files, h, line).pos]

\* let mut write_file = write_file.lock().unwrap();  (the latest file)
LockFile(t) ==
    /\ pc[t] = "lock_file"
    /\ lock["out_log_file"] = Free
    /\ lock' = Acquire(lock, "out_log_file", t)
    /\ pc' = Goto(t, "write_file")
    /\ UNCHANGED <<clock, dirs, fs, max_log_level, class_name, writer, init_date, facade,
                   cid, calls, rollovers>>

\* What a call is observed to do to the latest file.
SawFile(c, r) ==
    [c EXCEPT !.file_off = r.off, !.file_end = r.h.pos, !.file_lp = r.lp,
              !.file_date = out_log_file.date,
              !.file_gen = out_log_file.gen,
              !.file_len0 = Len(Content(fs, out_log_file.path))]

WriteFile(t, r) ==
    /\ lock["out_log_file_line_position"] = Free
    /\ fs' = r.fs
    /\ out_log_file' = r.h
    /\ out_log_file_line_position' = r.lp
    /\ calls' = SetCur(t, SawFile(Cur(t), r))
    /\ lock' = Release(lock, {"out_log_file"})
    /\ pc' = Goto(t, AfterFile)
    /\ UNCHANGED <<clock, dirs, max_log_level, class_name, out_log_date_file,
                   out_log_date_file_line_position, out_log_date, init_date, facade, cid,
                   rollovers>>

\* output_progress_msg, the latest file: the prefix length is computed in place.
ProgressWriteFile(t) ==
    /\ pc[t] = "write_file"
    /\ Cur(t).kind = "progress"
    /\ LET c == Cur(t)
       IN WriteFile(t, ProgressWrite(fs, out_log_file, out_log_file_line_position,
                cid[t], c.level, c.msg, c.stop,
                Len("[2024-05-08 12:24:05 " \o LogLevelDisplay(c.level) \o "] ")))

\* Log::log, the latest file.
LogWriteFile(t) ==
    /\ pc[t] = "write_file"
    /\ Cur(t).kind = "record"
    /\ LET c == Cur(t)
       IN WriteFile(t, LogWrite(fs, out_log_file, cid[t], c.level, c.msg))

\* let mut write_file = write_file.lock().unwrap();  (the dated file)
LockDateFile(t) ==
    /\ pc[t] = "lock_date_file"
    /\ lock["out_log_date_file"] = Free
    /\ lock' = Acquire(lock, "out_log_date_file", t)
    /\ pc' = Goto(t, "write_date_file")
    /\ UNCHANGED <<clock, dirs, fs, max_log_level, class_name, writer, init_date, facade,
                   cid, calls, rollovers>>

\* What a call is observed to do to the dated file.
SawDateFile(c, r) ==
    [c EXCEPT !.date_file_off = r.off, !.date_file_end = r.h.pos,
              !.date_file_lp = r.lp, !.date_file_date = out_log_date_file.date,
              !.date_file_gen = out_log_date_file.gen,
              !.date_file_len0 = Len(Content(fs, out_log_date_file.path))]

WriteDateFile(t, r) ==
    /\ lock["out_log_date_file_line_position"] = Free
    /\ fs' = r.fs
    /\ out_log_date_file' = r.h
    /\ out_log_date_file_line_position' = r.lp
    /\ calls' = SetCur(t, SawDateFile(Cur(t), r))
    /\ lock' = Release(lock, {"out_log_date_file"})
    /\ pc' = Goto(t, "idle")
    /\ UNCHANGED <<clock, dirs, max_log_level, class_name, out_log_file,
                   out_log_file_line_position, out_log_date, init_date, facade, cid,
                   rollovers>>

\* output_progress_msg, the dated file: the prefix length comes from
\* calculate_log_prefix_len.
ProgressWriteDateFile(t) ==
    /\ pc[t] = "write_date_file"
    /\ Cur(t).kind = "progress"
    /\ LET c == Cur(t)
       IN WriteDateFile(t, ProgressWrite(fs, out_log_date_file,
                out_log_date_file_line_position, cid[t], c.level, c.msg, c.stop,
                calculate_log_prefix_len(c.level)))

\* A slip of copying the latest file's section: the dated cursor is set to the
\* latest file's stream position.
LogWriteDateFileLatestPosition(t) ==
    /\ pc[t] = "write_date_file"
    /\ Cur(t).kind = "record"
    /\ LET c == Cur(t)
       IN WriteDateFile(t, [LogWrite(fs, out_log_date_file, cid[t], c.level, c.msg)
                              EXCEPT !.lp = out_log_file.pos])

\* Log::log, the dated file.
LogWriteDateFile(t) ==
    /\ pc[t] = "write_date_file"
    /\ Cur(t).kind = "record"
    /\ LET c == Cur(t)
       IN WriteDateFile(t, LogWrite(fs, out_log_date_file, cid[t], c.level, c.msg))

\* ------------------------------------------------------- failing writes

\* The u64 value 2^64 - k, which a - b wraps to in a build without overflow
\* checks when a < b.  It is written as the integer NoPos - k: it is no
\* cursor a write that succeeded stores, and no offset a seek accepts.
WrapU64(k) == NoPos - k

\* The progress write to one file when write! fails (the disk is full) and
\* writes nothing: the seek has moved the handle, the error is dropped, and
\* the cursor is computed from the stream position p all the same.  For a
\* progress that goes on, p less the message and the prefix length overflows
\* if the line would have begun less than that many bytes into the file.
FailedProgressWrite(files, h, lp, msg, is_process_stop, prefix_len) ==
    LET at == Seek(h, lp)
        p == at.pos
        n == msg + prefix_len
    IN [fs |-> files,
        h |-> at,
        off |-> NotYet,
        lp |-> IF is_process_stop THEN p
               ELSE IF p >= n THEN p - n ELSE WrapU64(n - p),
        overflow |-> ~is_process_stop /\ p < n]

\* The record write to one file when writeln! fails and writes nothing.
FailedLogWrite(files, h) ==
    [fs |-> files, h |-> h, off |-> NotYet, lp |-> h.pos]

\* The thread panics: "attempt to subtract with overflow" in a build with
\* overflow checks.  The mutexes it holds are poisoned: no lock().unwrap()
\* gets them again.
Panic(t) ==
    /\ pc' = Goto(t, "panicked")
    /\ UNCHANGED <<clock, dirs, fs, max_log_level, class_name, writer, init_date, facade,
                   lock, cid, calls, rollovers>>

\* output_progress_msg, the latest file, write! failing: the subtraction wraps
\* (WriteFile stores the wrapped cursor) or, in a build with overflow checks,
\* panics.
ProgressWriteFileFails(t) ==
    /\ pc[t] = "write_file"
    /\ Cur(t).kind = "progress"
    /\ LET c == Cur(t)
           r == FailedProgressWrite(fs, out_log_file, out_log_file_line_position,
                    c.msg, c.stop,
                    Len("[2024-05-08 12:24:05 " \o LogLevelDisplay(c.level) \o "] "))
       IN \/ WriteFile(t, r)
          \/ r.overflow /\ Panic(t)

\* output_progress_msg, the dated file, write! failing.
ProgressWriteDateFileFails(t) ==
    /\ pc[t] = "write_date_file"
    /\ Cur(t).kind = "progress"
    /\ LET c == Cur(t)
           r == FailedProgressWrite(fs, out_log_date_file,
                    out_log_date_file_line_position, c.msg, c.stop,
                    calculate_log_prefix_len(c.level))
       IN \/ WriteDateFile(t, r)
          \/ r.overflow /\ Panic(t)

\* Log::log, the latest file, writeln! failing.
LogWriteFileFails(t) ==
    /\ pc[t] = "write_file"
    /\ Cur(t).kind = "record"
    /\ WriteFile(t, FailedLogWrite(fs, out_log_file))

\* Log::log, the dated file, writeln! failing.
LogWriteDateFileFails(t) ==
    /\ pc[t] = "write_date_file"
    /\ Cur(t).kind = "record"
    /\ WriteDateFile(t, FailedLogWrite(fs, out_log_date_file))

\* ------------------------------------------- get_or_create_log_dir, by steps

\* The names get_or_create_log_dir is called with.
DirNames == {"", "Svc", NewClassName}

\* A call of get_or_create_log_dir(class_name) begins.
CallGetOrCreateLogDir(t) ==
    /\ pc[t] = "idle"
    /\ \E cn \in DirNames :
          calls' = Append(calls, [kind |-> "get_or_create_log_dir", class_name |-> cn])
    /\ cid' = [cid EXCEPT ![t] = Len(calls) + 1]
    /\ pc' = Goto(t, "log_dir_exists")
    /\ UNCHANGED <<clock, dirs, fs, max_log_level, class_name, writer, init_date, facade,
                   lock, rollovers>>

\* if !log_dir.exists()
LogDirExists(t) ==
    /\ pc[t] = "log_dir_exists"
    /\ pc' = Goto(t, IF LogDir \in dirs THEN "class_dir_exists" ELSE "create_log_dir")
    /\ UNCHANGED <<clock, dirs, fs, max_log_level, class_name, writer, init_date, facade,
                   lock, cid, calls, rollovers>>

\* fs::create_dir(log_dir).expect("Create log dir failed."): create_dir
\* fails if the directory is there, and expect panics on any failure.
CreateLogDir(t) ==
    /\ pc[t] = "create_log_dir"
    /\ IF LogDir \in dirs
       THEN Panic(t)
       ELSE /\ dirs' = dirs \cup {LogDir}
            /\ pc' = Goto(t, "class_dir_exists")
            /\ UNCHANGED <<clock, fs, max_log_level, class_name, writer, init_date, facade,
                           lock, cid, calls, rollovers>>

\* let log_dir = log_dir.join(class_name); if !log_dir.exists()
ClassDirExists(t) ==
    /\ pc[t] = "class_dir_exists"
    /\ pc' = Goto(t, IF ClassDir(Cur(t).class_name) \in dirs
                     THEN "idle" ELSE "create_class_dir")
    /\ UNCHANGED <<clock, dirs, fs, max_log_level, class_name, writer, init_date, facade,
                   lock, cid, calls, rollovers>>

\* fs::create_dir(log_dir.clone()).unwrap_or_else(|_| panic!(..)), and the
\* path is returned.
CreateClassDir(t) ==
    /\ pc[t] = "create_class_dir"
    /\ IF ClassDir(Cur(t).class_name) \in dirs
       THEN Panic(t)
       ELSE /\ dirs' = dirs \cup {ClassDir(Cur(t).class_name)}
            /\ pc' = Goto(t, "idle")
            /\ UNCHANGED <<clock, fs, max_log_level, class_name, writer, init_date, facade,
                           lock, cid, calls, rollovers>>

\* ------------------------------------------------- init, init_with_logger

\* The writers a program registers: the lazy_static LOGGER, and a static of
\* its own such as BASE_LOG of lib.rs.
OwnLoggers == {"BASE_LOG"}

\* let max_level = fetch_max_level_from_env(): the call reads RUST_LOG, which
\* holds v, and keeps the level in a local.
InitCall(t, logger) ==
    /\ pc[t] = "idle"
    /\ \E v \in AllEnvValues :
          calls' = Append(calls, [kind |-> "init", logger |-> logger, env |-> v,
                                  max_level |-> fetch_max_level_from_env(v),
                                  result |-> "running"])
    /\ cid' = [cid EXCEPT ![t] = Len(calls) + 1]
    /\ pc' = Goto(t, "set_logger")
    /\ UNCHANGED <<clock, dirs, fs, max_log_level, class_name, writer, init_date,
                   lock, rollovers, facade>>

\* LogUtil::init_with_logger(logger)
init_with_logger(t) == \E logger \in OwnLoggers : InitCall(t, logger)

\* LogUtil::init(): Self::init_with_logger(&LOGGER)
init(t) == InitCall(t, "LOGGER")

\* A slip: the maximum level is set whether or not set_logger succeeded.
SetLoggerAndMaxLevel(t) ==
    /\ pc[t] = "set_logger"
    /\ IF facade.logger = NopLogger
       THEN /\ facade' = [facade EXCEPT !.logger = Cur(t).logger]
            /\ pc' = Goto(t, "set_max_level")
            /\ calls' = calls
       ELSE /\ facade' = [facade EXCEPT !.max_level = Cur(t).max_level]
            /\ pc' = Goto(t, "idle")
            /\ calls' = SetCur(t, [Cur(t) EXCEPT !.result = "Err"])
    /\ UNCHANGED <<clock, dirs, fs, max_log_level, class_name, writer, init_date,
                   lock, cid, rollovers>>

\* log::set_logger(logger): the first call registers the logger; any later
\* one fails with SetLoggerError, which `?` returns to the caller.
SetLogger(t) ==
    /\ pc[t] = "set_logger"
    /\ IF facade.logger = NopLogger
       THEN /\ facade' = [facade EXCEPT !.logger = Cur(t).logger]
            /\ pc' = Goto(t, "set_max_level")
            /\ calls' = calls
       ELSE /\ facade' = facade
            /\ pc' = Goto(t, "idle")
            /\ calls' = SetCur(t, [Cur(t) EXCEPT !.result = "Err"])
    /\ UNCHANGED <<clock, dirs, fs, max_log_level, class_name, writer, init_date,
                   lock, cid, rollovers>>

\* .map(|()| log::set_max_level(max_level)), then Ok(logger).
SetMaxLevel(t) ==
    /\ pc[t] = "set_max_level"
    /\ facade' = [facade EXCEPT !.max_level = Cur(t).max_level]
    /\ calls' = SetCur(t, [Cur(t) EXCEPT !.result = "Ok"])
    /\ pc' = Goto(t, "idle")
    /\ UNCHANGED <<clock, dirs, fs, max_log_level, class_name, writer, init_date,
                   lock, cid, rollovers>>

\* ------------------------------------------------------------ environment

\* Midnight passes.  The program reads the date only at the entry of a write
\* call (let now = chrono::Local::now()), so a change of date is placed where
\* one of the threads ts that use the writer is about to enter one.
Tick(ts) ==
    /\ clock < MaxDate
    /\ \E t \in ts : pc[t] = "idle"
    /\ clock' = clock + 1
    /\ UNCHANGED <<dirs, fs, max_log_level, class_name, writer, init_date, facade, lock,
                   pc, cid, calls, rollovers>>

\* set_class_name(&mut self): the exclusive borrow means no call is running.
set_class_name ==
    /\ \A t \in Threads : pc[t] = "idle"
    /\ class_name # NewClassName
    /\ class_name' = NewClassName
    /\ UNCHANGED <<clock, dirs, fs, max_log_level, writer, init_date, facade, lock, pc,
                   cid, calls, rollovers>>

\* ---------------------------------------------------------- specifications

Step(t) ==
    \/ CheckDate(t)
    \/ Reopen(t)
    \/ SwapFile(t)
    \/ SwapDateFile(t)
    \/ LockFile(t)
    \/ ProgressWriteFile(t)
    \/ LogWriteFile(t)
    \/ LockDateFile(t)
    \/ ProgressWriteDateFile(t)
    \/ LogWriteDateFile(t)

\* Several threads share the writer.
Next ==
    \/ Tick(Threads)
    \/ set_class_name
    \/ \E t \in Threads :
        \/ Len(calls) < MaxCalls /\ output_progress_msg(t)
        \/ Len(calls) < MaxCalls /\ log(t)
        \/ Step(t)

Spec == Init /\ [][Next]_vars

\* One thread uses the writer: each call returns before the next begins.
SeqNext ==
    \/ Tick({MainThread})
    \/ Len(calls) < MaxSeqCalls /\ output_progress_msg(MainThread)
    \/ Len(calls) < MaxSeqCalls /\ log(MainThread)
    \/ Step(MainThread)

SeqSpec == Init /\ [][SeqNext]_vars

\* Several threads share the writer and the scheduler is fair: a thread
\* whose call can take its next step is not left waiting for ever.  RUST_LOG
\* is unset and the messages have one length.
FairNext ==
    \/ Tick(Threads)
    \/ \E t \in Threads :
        \/ Len(calls) < MaxFairCalls
              /\ output_progress_msg_with(t, ProgressLevels, {1})
        \/ Len(calls) < MaxFairCalls /\ log_with(t, RecordLevels, {1})
        \/ Step(t)

FairSpec ==
    /\ Start({""})
    /\ [][FairNext]_vars
    /\ \A t \in Threads : WF_vars(Step(t))

\* One thread uses the writer with every level, under every value of RUST_LOG.
LevelNext ==
    \/ Tick({MainThread})
    \/ Len(calls) < MaxLevelCalls
          /\ output_progress_msg_with(MainThread, LogLevels, {1})
    \/ Len(calls) < MaxLevelCalls /\ log_with(MainThread, Levels, {1})
    \/ Step(MainThread)

LevelSpec == Start(AllEnvValues) /\ [][LevelNext]_vars

\* One thread uses the writer on a disk where any write may fail.
FailNext ==
    \/ Tick({MainThread})
    \/ Len(calls) < MaxFailCalls /\ output_progress_msg(MainThread)
    \/ Len(calls) < MaxFailCalls /\ log(MainThread)
    \/ Step(MainThread)
    \/ ProgressWriteFileFails(MainThread)
    \/ ProgressWriteDateFileFails(MainThread)
    \/ LogWriteFileFails(MainThread)
    \/ LogWriteDateFileFails(MainThread)

FailSpec == Init /\ [][FailNext]_vars

\* Threads call get_or_create_log_dir, as LogUtil::new of several writers
\* and the rollovers of several writers do.
DirNext ==
    \E t \in Threads :
        \/ Len(calls) < MaxDirCalls /\ CallGetOrCreateLogDir(t)
        \/ LogDirExists(t)
        \/ CreateLogDir(t)
        \/ ClassDirExists(t)
        \/ CreateClassDir(t)

DirSpec == Init /\ [][DirNext]_vars

\* Threads register writers with the log facade.
InitNext ==
    \E t \in Threads :
        \/ Len(calls) < MaxInitCalls /\ init(t)
        \/ Len(calls) < MaxInitCalls /\ init_with_logger(t)
        \/ SetLogger(t)
        \/ SetMaxLevel(t)

InitSpec == Init /\ [][InitNext]_vars

\* ------------------------------------------------------------- the claims

CallIds == 1..Len(calls)
\* The call has returned.
Returned(i) == \A t \in Threads : cid[t] = i => pc[t] = "idle"
\* The call wrote its line to the latest file, to the dated file.
WroteFile(i) == calls[i].file_off # NotYet
WroteDateFile(i) == calls[i].date_file_off # NotYet
\* The writer has files.
FileBacked == out_log_file # None /\ out_log_date_file # None
NoCallRunning == \A t \in Threads : pc[t] = "idle"
\* How many bytes of call i a file content holds.
BytesOf(content, i) ==
    Cardinality({k \in 1..Len(content) : content[k] \in {Txt(i), Nl(i)}})

\* C1: a call that captured the date d writes its line to the latest file and
\* to the dated file only through handles that were opened for d.
C1_WritesToFilesOfItsDate ==
    \A i \in CallIds :
        /\ WroteFile(i) => calls[i].file_date = calls[i].now
        /\ WroteDateFile(i) => calls[i].date_file_date = calls[i].now

\* C2: the two lines one call writes go through handles of the same rollover.
C2_SameRotationGeneration ==
    \A i \in CallIds :
        (WroteFile(i) /\ WroteDateFile(i)) => calls[i].file_gen = calls[i].date_file_gen

\* C3: the writer rolls over once for each change of date: there are never
\* more rollovers (truncations of the latest file) than date changes since
\* the writer was constructed.
C3_OneRolloverPerDateChange ==
    FileBacked => rollovers <= clock - init_date

\* C4: whenever the out_log_date lock is free, the two file handles are both
\* absent, or both present and both opened for out_log_date by the same
\* rollover, the dated one on the file named with that date.
C4_FilesMatchOpenDate ==
    lock["out_log_date"] = Free =>
        \/ out_log_file = None /\ out_log_date_file = None
        \/ /\ out_log_file # None
           /\ out_log_date_file # None
           /\ out_log_file.date = out_log_date
           /\ out_log_date_file.date = out_log_date
           /\ out_log_file.gen = out_log_date_file.gen
           /\ out_log_file.path[2] = NoDate
           /\ out_log_date_file.path[2] = out_log_date
           /\ out_log_file.path[1] = out_log_date_file.path[1]

\* C4's case: a rollover has swapped both handles and released the lock.
C4_Witness ==
    /\ lock["out_log_date"] = Free
    /\ rollovers > 0
    /\ out_log_file # None
    /\ out_log_date = MaxDate

\* The last call made, and the one before it.
Last == Len(calls)
\* Both calls passed the level filter and wrote both files.
Wrote(i) == WroteFile(i) /\ WroteDateFile(i)
\* Byte length of the line a progress call writes.
ProgressLineLen(i) == Len(RenderLine(i, LogLevelDisplay(calls[i].level), calls[i].msg))

\* C5: a rollover resets both cursors with the handle swap: the progress
\* write that rolled over starts its line at offset 0 of the truncated latest
\* file and at the end of the newly opened dated file.
C5_RolloverResetsCursors ==
    \A i \in CallIds :
        (calls[i].kind = "progress" /\ calls[i].rolled /\ Wrote(i)) =>
            /\ calls[i].file_off = 0
            /\ calls[i].date_file_off = calls[i].date_file_len0

\* C6: whenever no write call is running on a file-backed writer, neither
\* cursor exceeds the length of its file.
C6_CursorsWithinFiles ==
    (NoCallRunning /\ HasFile /\ HasDateFile) =>
        /\ out_log_file_line_position <= Len(Content(fs, out_log_file.path))
        /\ out_log_date_file_line_position <= Len(Content(fs, out_log_date_file.path))

\* C6's case: calls have returned, one of them after a rollover, and a cursor
\* is past the start of its file.
C6_Witness ==
    /\ NoCallRunning
    /\ HasFile
    /\ rollovers > 0
    /\ Last = MaxSeqCalls
    /\ out_log_file_line_position > 0
    /\ out_log_date_file_line_position > 0

\* The date changed between the write before the last and the last write.
DateChangedBeforeLast ==
    /\ Last >= 2
    /\ Returned(Last)
    /\ Wrote(Last - 1)
    /\ Wrote(Last)
    /\ calls[Last].now # calls[Last - 1].now

\* C7: if the date changes between two writes, then after the second write
\* the writer is open for the new date, the latest file was truncated and
\* reopened and holds nothing written before the rollover, and the dated
\* handle is on the file named with the new date, not the old one.
C7_RolloverBetweenWrites ==
    DateChangedBeforeLast =>
        /\ calls[Last].rolled
        /\ out_log_date = calls[Last].now
        /\ out_log_file.gen > calls[Last - 1].file_gen
        /\ calls[Last].file_len0 = 0
        /\ \A k \in 1..Len(Content(fs, out_log_file.path)) :
              Content(fs, out_log_file.path)[k] \in {Hole, Txt(Last), Nl(Last)}
        /\ out_log_date_file.path = DatedPath(class_name, calls[Last].now)
        /\ out_log_date_file.path # DatedPath(class_name, calls[Last - 1].now)
        /\ BytesOf(Content(fs, out_log_date_file.path), Last - 1) = 0

\* C7's case: the second write is a progress write, after a record.
C7_Witness ==
    /\ DateChangedBeforeLast
    /\ calls[Last].kind = "progress"
    /\ calls[Last - 1].kind = "record"

\* Two progress writes in a row on the same files, the first not terminal.
ProgressThenProgress(i) ==
    /\ i >= 2
    /\ Wrote(i - 1)
    /\ Wrote(i)
    /\ calls[i - 1].kind = "progress"
    /\ calls[i].kind = "progress"
    /\ ~calls[i - 1].stop
    /\ ~calls[i].rolled

\* C8: a progress write that is not terminal leaves each cursor at the offset
\* its line began at, and the progress write that follows begins at the same
\* offsets.
C8_ProgressOverwrites ==
    \A i \in CallIds :
        ProgressThenProgress(i) =>
            /\ calls[i - 1].file_lp = calls[i - 1].file_off
            /\ calls[i - 1].date_file_lp = calls[i - 1].date_file_off
            /\ calls[i].file_off = calls[i - 1].file_off
            /\ calls[i].date_file_off = calls[i - 1].date_file_off

\* A terminal progress write and then a record write.
ProgressThenRecord(i) ==
    /\ i >= 2
    /\ Wrote(i - 1)
    /\ Wrote(i)
    /\ calls[i - 1].kind = "progress"
    /\ calls[i - 1].stop
    /\ calls[i].kind = "record"

\* C9: a terminal progress write leaves each cursor at the stream position
\* at the end of its line, and the record write that follows puts its bytes
\* after the last byte of the progress line, which stays whole: in a file the
\* record reaches through the handle the progress write used, the record
\* begins at or after the end of the progress line, and no file the record
\* wrote to holds a part of the progress line only.
C9_RecordAfterTerminalProgress ==
    \A i \in CallIds :
        (ProgressThenRecord(i) /\ i = Last /\ Returned(i)) =>
            /\ calls[i - 1].file_lp = calls[i - 1].file_end
            /\ calls[i - 1].date_file_lp = calls[i - 1].date_file_end
            /\ calls[i - 1].file_end = calls[i - 1].file_off + ProgressLineLen(i - 1)
            /\ calls[i - 1].date_file_end =
                  calls[i - 1].date_file_off + ProgressLineLen(i - 1)
            /\ calls[i].file_gen = calls[i - 1].file_gen =>
                  /\ calls[i].file_off >= calls[i - 1].file_end
                  /\ BytesOf(Content(fs, out_log_file.path), i - 1)
                        = ProgressLineLen(i - 1)
            /\ calls[i].date_file_gen = calls[i - 1].date_file_gen =>
                  /\ calls[i].date_file_off >= calls[i - 1].date_file_end
                  /\ BytesOf(Content(fs, out_log_date_file.path), i - 1)
                        = ProgressLineLen(i - 1)
            /\ BytesOf(Content(fs, out_log_file.path), i - 1)
                  \in {0, ProgressLineLen(i - 1)}
            /\ BytesOf(Content(fs, out_log_date_file.path), i - 1)
                  \in {0, ProgressLineLen(i - 1)}

\* C9's case: the record follows the progress line in the same files, and the
\* progress line does not begin the latest file.
C9_Witness ==
    /\ Last = MaxSeqCalls
    /\ ProgressThenRecord(Last)
    /\ Returned(Last)
    /\ calls[Last].file_gen = calls[Last - 1].file_gen
    /\ calls[Last - 1].file_off > 0

\* C10: a record write makes the dated file longer, its newline is the last
\* byte of the file, and the lines of earlier records stay whole.
C10_RecordAppends ==
    \A i \in CallIds :
        (calls[i].kind = "record" /\ Wrote(i) /\ i = Last /\ Returned(i)) =>
            LET content == Content(fs, out_log_date_file.path)
            IN /\ Len(content) > calls[i].date_file_len0
               /\ content[Len(content)] = Nl(i)
               /\ \A j \in 1..(i - 1) :
                    (calls[j].kind = "record" /\ WroteDateFile(j)
                        /\ calls[j].date_file_date = calls[i].date_file_date) =>
                    BytesOf(content, j) = calls[j].date_file_end - calls[j].date_file_off

\* C11: the content a dated file held when the writer was constructed on it
\* stays in place as a prefix of the file: no step of a write call makes a
\* dated file shorter or replaces a byte left by an earlier run.
C11_DatedContentStays ==
    [][\A p \in DOMAIN fs :
          p[2] # NoDate =>
              /\ p \in DOMAIN fs'
              /\ Len(fs'[p]) >= Len(fs[p])
              /\ \A k \in 1..Len(fs[p]) : fs[p][k] = Old => fs'[p][k] = Old]_vars

\* Calls were made, each of them is a record write that has returned, and the
\* date did not change since the writer was constructed.
RecordsOnlySameDate ==
    /\ FileBacked
    /\ calls # <<>>
    /\ NoCallRunning
    /\ rollovers = 0
    /\ \A i \in CallIds : calls[i].kind = "record" /\ calls[i].now = init_date
\* The bytes off+1..end of content are one whole line of call i, newline last.
WholeLine(content, i, off, end) ==
    /\ end = off + Len(RenderLineLn(i, LevelDisplay(calls[i].level), calls[i].msg))
    /\ end <= Len(content)
    /\ \A k \in (off + 1)..(end - 1) : content[k] = Txt(i)
    /\ content[end] = Nl(i)
    /\ BytesOf(content, i) = end - off
\* How many newlines a file content holds.
Newlines(content) ==
    Cardinality({k \in 1..Len(content) : \E i \in CallIds : content[k] = Nl(i)})

\* C12: when record writes made by several threads with no change of date
\* have all returned, each file holds one whole newline-terminated line per
\* call and no other newline, no line holds a byte of another, and each cursor
\* is the length of its file.
C12_ConcurrentRecordsWhole ==
    RecordsOnlySameDate =>
        LET latest == Content(fs, out_log_file.path)
            dated == Content(fs, out_log_date_file.path)
        IN /\ \A i \in CallIds :
                /\ Wrote(i)
                /\ WholeLine(latest, i, calls[i].file_off, calls[i].file_end)
                /\ WholeLine(dated, i, calls[i].date_file_off, calls[i].date_file_end)
           /\ Newlines(latest) = Len(calls)
           /\ Newlines(dated) = Len(calls)
           /\ out_log_file_line_position = Len(latest)
           /\ out_log_date_file_line_position = Len(dated)

\* C12's case: two threads' records overlapped in time: the first call's line
\* comes first in the latest file and second in the dated file.
C12_Witness ==
    /\ RecordsOnlySameDate
    /\ Len(calls) = MaxCalls
    /\ calls[1].file_off < calls[2].file_off
    /\ calls[2].date_file_off < calls[1].date_file_off

\* The facade's order of levels, from the least verbose: a level is enabled
\* by a threshold that is at least as verbose.
LevelRank(l) ==
    CASE l = "Error" -> 1 [] l = "Warn" -> 2 [] l = "Info" -> 3
      [] l = "Debug" -> 4 [] l = "Trace" -> 5
EnabledBy(l, threshold) == LevelRank(l) <= LevelFilterAsU32(threshold)

\* C13: a progress write is emitted exactly when its level is enabled by the
\* threshold (a level equal to the threshold is, a more verbose one is not,
\* Off enables none, Trace enables all), and a call that is not emitted rolls
\* nothing over and writes to neither file.
C13_EmittedWhenEnabled ==
    \A i \in CallIds :
        /\ calls[i].kind = "progress" =>
              (calls[i].passed <=> EnabledBy(calls[i].level, max_log_level))
        /\ ~calls[i].passed =>
              ~calls[i].rolled /\ ~WroteFile(i) /\ ~WroteDateFile(i)

\* C14: a write that fails on an open handle is not fatal: no call panics,
\* no cursor is the result of a subtraction that went below zero, and a call
\* whose line was lost in the latest file still goes on to the dated file.
C14_WriteFailureNotFatal ==
    /\ \A t \in Threads : pc[t] # "panicked"
    /\ out_log_file_line_position >= NoPos
    /\ out_log_date_file_line_position >= NoPos
    /\ \A i \in CallIds :
          (Returned(i) /\ calls[i].passed /\ HasDateFile /\ calls[i].file_lp # NotYet)
              => calls[i].date_file_lp # NotYet

\* C15: no call of get_or_create_log_dir panics because a directory is
\* already there, whatever other calls run beside it, and when a call has
\* returned log/ and log/<name>/ exist.
C15_DirCallsReturn ==
    /\ \A t \in Threads : pc[t] \notin {"panicked"}
    /\ \A i \in CallIds :
          Returned(i) => {LogDir, ClassDir(calls[i].class_name)} \subseteq dirs

\* The writer has no files: it was constructed with the empty name, or it is
\* the default LOGGER.
NullWriter == out_log_file = None /\ out_log_date_file = None

\* C16: on a writer without files no call takes a lock, rolls over or writes:
\* the directories and files on disk are those the program started with, and
\* the cursors and out_log_date are as the writer was constructed.
C16_NullWriterTouchesNothing ==
    NullWriter =>
        /\ \E disk \in Disks : dirs = disk.dirs /\ fs = disk.fs
        /\ out_log_date = init_date
        /\ out_log_file_line_position = (IF init_date = NoDate THEN NoPos ELSE 0)
        /\ out_log_date_file_line_position = (IF init_date = NoDate THEN NoPos ELSE 0)
        /\ rollovers = 0
        /\ \A l \in LockNames : lock[l] = Free
        /\ \A i \in CallIds :
              ~calls[i].rolled /\ ~WroteFile(i) /\ ~WroteDateFile(i)

\* C16's case: progress and record writes were printed by a writer without
\* files, the last of them after the date changed.
C16_Witness ==
    /\ NullWriter
    /\ NoCallRunning
    /\ Last = MaxSeqCalls
    /\ calls[Last].now # init_date
    /\ calls[Last].now = MaxDate
    /\ \E i, j \in CallIds :
          /\ calls[i].kind = "progress" /\ calls[i].passed
          /\ calls[j].kind = "record" /\ calls[j].passed

\* Call i has registered its logger: it has returned Ok, or it is about to
\* set the maximum level.
Registered(i) ==
    \/ calls[i].result = "Ok"
    \/ \E t \in Threads : cid[t] = i /\ pc[t] = "set_max_level"

\* C17: of the calls of init and init_with_logger exactly one registers its
\* writer, and it returns Ok; while the others run and after they returned
\* Err the facade holds that writer, and once the call has returned Ok the
\* facade's maximum level is the one it read from RUST_LOG; no call panics.
C17_OneInitRegisters ==
    /\ \A t \in Threads : pc[t] # "panicked"
    /\ \A i, j \in CallIds : (Registered(i) /\ Registered(j)) => i = j
    /\ \A i \in CallIds :
          /\ (Returned(i) /\ ~Registered(i)) =>
                /\ calls[i].result = "Err"
                /\ \E j \in CallIds : Registered(j)
          /\ Registered(i) => facade.logger = calls[i].logger
          /\ (Registered(i) /\ calls[i].result = "running") =>
                facade.max_level = "Off"
          /\ calls[i].result = "Ok" =>
                facade.max_level = fetch_max_level_from_env(calls[i].env)
    /\ (\A i \in CallIds : ~Registered(i)) =>
          facade = [logger |-> NopLogger, max_level |-> "Off"]

\* C17's case: a call returned Ok and a later one, for another writer and
\* under another value of RUST_LOG, returned Err.
C17_Witness ==
    /\ NoCallRunning
    /\ Len(calls) = MaxInitCalls
    /\ \E i, j \in CallIds :
          /\ calls[i].result = "Ok"
          /\ calls[j].result = "Err"
          /\ calls[i].logger # calls[j].logger
          /\ calls[i].max_level # calls[j].max_level

\* C18: the level a call derives from RUST_LOG: the six lower-case names give
\* their levels, and every other value (unset, a name in another case, an
\* unknown name) gives Info.
C18_EnvLevelMapping ==
    \A i \in CallIds :
        calls[i].kind = "init" =>
            LET v == calls[i].env
                level == calls[i].max_level
            IN /\ v = "info" => level = "Info"
               /\ v = "debug" => level = "Debug"
               /\ v = "error" => level = "Error"
               /\ v = "warn" => level = "Warn"
               /\ v = "off" => level = "Off"
               /\ v = "trace" => level = "Trace"
               /\ v \notin {"info", "debug", "error", "warn", "off", "trace"} =>
                     level = "Info"

\* C18's case: one call read a name in another case, one read "off".
C18_Witness ==
    \E i, j \in CallIds :
        /\ calls[i].kind = "init" /\ calls[i].env = "Warn"
        /\ calls[j].kind = "init" /\ calls[j].env = "off"
        /\ Returned(i) /\ Returned(j)

\* C19: a rollover is the same in both write paths: the handles the rollover
\* of a call has opened, of a progress write as of a record, are the latest
\* handle at offset 0 of the truncated file and the dated handle the record
\* path opens, at the end of its file and not in append mode.
C19_RolloverSameInBothPaths ==
    \A t \in Threads :
        pc[t] = "swap_file" =>
            /\ Len(Content(fs, LatestPath(class_name))) = 0
            /\ Cur(t).out_file = ReopenFile(class_name, Cur(t).now, rollovers + 1)
            /\ Cur(t).out_date_file =
                  LogReopenDateFile(fs, class_name, Cur(t).now, rollovers + 1)

\* The locks a thread holds, the locks a call holds at each place, the lock
\* it takes next there, and the order of the locks.
HeldBy(t) == {l \in LockNames : lock[l] = t}
HeldAt(l) ==
    CASE l \in {"reopen", "swap_file"} -> {"out_log_date"}
      [] l = "swap_date_file" -> {"out_log_date", "out_log_file"}
      [] l = "write_file" -> {"out_log_file"}
      [] l = "write_date_file" -> {"out_log_date_file"}
      [] OTHER -> {}
TakenAt(l) ==
    CASE l = "check_date" -> {"out_log_date"}
      [] l \in {"swap_file", "lock_file"} -> {"out_log_file"}
      [] l = "write_file" -> {"out_log_file_line_position"}
      [] l \in {"swap_date_file", "lock_date_file"} -> {"out_log_date_file"}
      [] l = "write_date_file" -> {"out_log_date_file_line_position"}
      [] OTHER -> {}
LockRank(l) ==
    CASE l = "out_log_date" -> 1 [] l = "out_log_file" -> 2
      [] l = "out_log_file_line_position" -> 3 [] l = "out_log_date_file" -> 4
      [] l = "out_log_date_file_line_position" -> 5
\* Every thread holds the locks of its place, each of them before the lock it
\* takes next in the order of the locks.
LockOrderKept ==
    \A t \in Threads :
        /\ HeldBy(t) = HeldAt(pc[t])
        /\ \A held \in HeldBy(t), taken \in TakenAt(pc[t]) :
              LockRank(held) < LockRank(taken)
\* A running call can take its step: the lock it takes next is free.
CanStep(t) == pc[t] # "idle" /\ \A l \in TakenAt(pc[t]) : lock[l] = Free
\* While a call is running some call can take its step.
NoDeadlock ==
    (\E t \in Threads : pc[t] # "idle") => \E t \in Threads : CanStep(t)

\* C20: the locks are taken in one order, no state is a deadlock, and under
\* fair scheduling every write call returns, holding no lock.
C20_EveryCallReturns ==
    /\ [](LockOrderKept /\ NoDeadlock)
    /\ \A t \in Threads : (pc[t] # "idle") ~> (pc[t] = "idle" /\ HeldBy(t) = {})

\* C20's case: a call waits for the latest file while a rollover holds it.
C20_Witness ==
    \E t, u \in Threads :
        /\ pc[t] = "lock_file"
        /\ pc[u] = "swap_date_file"
        /\ lock["out_log_file"] = u

\* C21: when record writes made by several threads with no change of date
\* have all returned, the lines come in the same order in the latest file
\* and in the dated file.
C21_SameOrderInBothFiles ==
    RecordsOnlySameDate =>
        \A i, j \in CallIds :
            (Wrote(i) /\ Wrote(j)) =>
                (calls[i].file_off < calls[j].file_off
                    <=> calls[i].date_file_off < calls[j].date_file_off)

====
